---- MODULE Spec2Model ----
(***************************************************************************)
(* Token and rate-limit state of backend_api.py: refresh-token rotation    *)
(* and revocation, password-reset (verification) tokens, and the request   *)
(* rate limiter, all kept in one Redis store that many request handlers    *)
(* use concurrently.  Every handler is a process whose steps are its       *)
(* single Redis commands; each command is atomic, a handler is not.        *)
(***************************************************************************)
EXTENDS Integers, FiniteSets, Sequences, Bags

(***************************************************************************)
(* Bounds of the model.  Durations are counted in ticks of the store's     *)
(* clock: the code's 7 days, 24 hours and 60 seconds are scaled to a few   *)
(* ticks, and the quota of 100 to a few requests.                          *)
(***************************************************************************)
MaxTokens == 3

NumRotate == 2

RefreshTTL == 2

MaxVTokens == 2

NumReset == 2

VerifyTTL == 2

NumReq == 2

\* The request quota of one window (100 in the code, scaled).
Quota == 3

\* The window, in ticks (60 seconds in the code, scaled).
Window == 2

\* The client (request.client.host) whose requests are followed; the counters of
\* different clients are different keys.
Client == 1

\* A key with no expiry set (Redis TTL -1).
NoExpiry == -1

\* A token string that secrets.token_urlsafe never returns.
NoSuchToken == 0

Tokens == 1..MaxTokens

\* The token strings a caller can send.
Keys == Tokens \cup {NoSuchToken}

VTokens == 1..MaxVTokens

VKeys == VTokens \cup {NoSuchToken}

Emails == {"a@example.com", "b@example.com"}

\* No identity: get returned None.
NoEmail == "nil"

ReqProcs == 1..NumReq

Clients == {Client}

VARIABLES
    redis_client,   \* TRUE: the module holds a client handle; FALSE: None
    refresh,        \* keys refresh:{token}
    genR,           \* refresh tokens generated so far
    rot,            \* the rotate_refresh_token calls in flight or crashed
    rev,            \* the latest revoke_token call: its outcome, its token if the store got it
    rotations,      \* history: the rotations that returned
    expired,        \* history: the refresh tokens whose key the TTL removed
    verify,         \* keys verify:{token}
    bound,          \* history: the identity each verification token was generated for
    mailed,         \* the reset tokens handed to the mail task
    rs,             \* the bag of reset_password calls in flight or just ended
    password,       \* users.password per identity: "old", or "new" once a reset set it
    succ,           \* history: per token, the reset_password calls that succeeded
    expiredV,       \* history: the verification tokens whose key the TTL removed
    rate,           \* keys ratelimit:{client}
    req,            \* the requests in rate_limit_middleware
    adm             \* history: the increments in the life of the current counter

rvars == <<refresh, genR, rot, rev, rotations, expired>>

vvars == <<verify, bound, mailed, rs, password, succ, expiredV>>

lvars == <<rate, req, adm>>

vars == <<redis_client, rvars, vvars, lvars>>

(***************************************************************************)
(* The key-value store: one record per key, Absent when the key does not   *)
(* exist.  ttl is the remaining lifetime in ticks, or NoExpiry.            *)
(***************************************************************************)
Absent == [val |-> "nil", ttl |-> 0]

\* SETEX key seconds value.  Redis refuses a lifetime that is not positive
\* ("ERR invalid expire time in 'setex' command") and leaves the key as it was.
setex(db, k, seconds, v) ==
    IF seconds <= 0
    THEN [ok |-> FALSE, db |-> db]
    ELSE [ok |-> TRUE, db |-> [db EXCEPT ![k] = [val |-> v, ttl |-> seconds]]]

\* GET key: the value, or "nil" (None).
get(db, k) == db[k].val

\* DEL key.
delete(db, k) == [db EXCEPT ![k] = Absent]

\* A counter key that does not exist, and what GET answers for it (None).
NoCounter == [val |-> 0, ttl |-> 0]

None == -1

\* GET of a counter key.
getCount(db, k) == IF db[k].ttl = 0 THEN None ELSE db[k].val

\* INCR key: a missing key counts from 0 and is created without expiry; an
\* existing key keeps its expiry.
incr(db, k) ==
    IF db[k].ttl = 0
    THEN [db EXCEPT ![k] = [val |-> 1, ttl |-> NoExpiry]]
    ELSE [db EXCEPT ![k].val = @ + 1]

\* EXPIRE key seconds: sets the expiry of an existing key.
expire(db, k, seconds) ==
    IF db[k].ttl = 0 THEN db ELSE [db EXCEPT ![k].ttl = seconds]

\* The store's clock: every key with an expiry loses one tick and is removed
\* (becomes none) when no tick is left.
Age(db, none) ==
    [k \in DOMAIN db |->
        IF db[k].ttl > 1 THEN [db[k] EXCEPT !.ttl = @ - 1]
        ELSE IF db[k].ttl = 1 THEN none
        ELSE db[k]]

\* validate(token) of the refresh-token manager, asked of a store that answers:
\* accepted exactly when the token's record is present with status valid.
validate(t) ==
    /\ redis_client
    /\ get(refresh, t) = "valid"

(***************************************************************************)
(* rotate_refresh_token(old_token).  A command of a handler either reaches *)
(* the store (up) or raises: there is no client handle (None has no        *)
(* attribute setex), or the connection fails.  Nothing catches it: the     *)
(* call ends (HTTP 500).  A call is identified by the token it generated;  *)
(* at most NumRotate calls are in flight or crashed at a time.             *)
(***************************************************************************)

\* (mutant) the old record is deleted before the new one is written.
RotateOrder_DeleteFirst == <<"delete", "setex">>

\* The store commands of rotate_refresh_token in program order.
RotateOrder == <<"setex", "delete">>

\* secrets.token_urlsafe(32): a string never returned before.
FreshToken(gen) == Cardinality(gen) + 1

\* The token strings callers hold: the ones a rotation has returned.
Held == {r.new : r \in rotations}

\* The call and line 69: old_token is any token string a caller holds, or one
\* never issued.
RotateCall(old) ==
    /\ Cardinality(rot) < NumRotate
    /\ Cardinality(genR) < MaxTokens
    /\ rot' = rot \cup {[pc |-> "ops", ip |-> 1, old |-> old, new |-> FreshToken(genR),
                         oldValid |-> validate(old), wrote |-> "nil", deleted |-> FALSE]}
    /\ genR' = genR \cup {FreshToken(genR)}
    /\ UNCHANGED <<redis_client, refresh, rev, rotations, expired>>
    /\ UNCHANGED <<vvars, lvars>>

\* The step after a store command: the next command, or the return.
RotAfter(c) ==
    [c EXCEPT !.ip = @ + 1, !.pc = IF c.ip = Len(RotateOrder) THEN "return" ELSE "ops"]

\* (mutant) the new record is written only for an old token that was valid.
RotateSetex_IfOldValid(c, up) ==
    /\ c \in rot
    /\ c.pc = "ops"
    /\ RotateOrder[c.ip] = "setex"
    /\ IF redis_client /\ up
       THEN IF c.oldValid
            THEN /\ refresh' = setex(refresh, c.new, RefreshTTL, "valid").db
                 /\ rot' = (rot \ {c}) \cup {[RotAfter(c) EXCEPT !.wrote = "valid"]}
            ELSE /\ rot' = (rot \ {c}) \cup {RotAfter(c)}
                 /\ UNCHANGED refresh
       ELSE /\ rot' = rot \ {c}
            /\ UNCHANGED refresh
    /\ UNCHANGED <<redis_client, genR, rev, rotations, expired>>
    /\ UNCHANGED <<vvars, lvars>>

\* Line 70: redis_client.setex(refresh:{new}, REFRESH_TOKEN_EXPIRE_DAYS * 86400, "valid").
RotateSetex(c, up) ==
    /\ c \in rot
    /\ c.pc = "ops"
    /\ RotateOrder[c.ip] = "setex"
    /\ IF redis_client /\ up
       THEN LET r == setex(refresh, c.new, RefreshTTL, "valid") IN
            /\ refresh' = r.db
            /\ rot' = IF r.ok
                      THEN (rot \ {c}) \cup {[RotAfter(c) EXCEPT !.wrote = "valid"]}
                      ELSE rot \ {c}
       ELSE /\ rot' = rot \ {c}
            /\ UNCHANGED refresh
    /\ UNCHANGED <<redis_client, genR, rev, rotations, expired>>
    /\ UNCHANGED <<vvars, lvars>>

\* (mutant) the delete of the old record is left out.
RotateDelete_Skipped(c, up) ==
    /\ c \in rot
    /\ c.pc = "ops"
    /\ RotateOrder[c.ip] = "delete"
    /\ rot' = IF redis_client /\ up
              THEN (rot \ {c}) \cup {[RotAfter(c) EXCEPT !.deleted = TRUE]}
              ELSE rot \ {c}
    /\ UNCHANGED <<redis_client, refresh, genR, rev, rotations, expired>>
    /\ UNCHANGED <<vvars, lvars>>

\* Line 71: redis_client.delete(refresh:{old}).
RotateDelete(c, up) ==
    /\ c \in rot
    /\ c.pc = "ops"
    /\ RotateOrder[c.ip] = "delete"
    /\ IF redis_client /\ up
       THEN /\ refresh' = delete(refresh, c.old)
            /\ rot' = (rot \ {c}) \cup {[RotAfter(c) EXCEPT !.deleted = TRUE]}
       ELSE /\ rot' = rot \ {c}
            /\ UNCHANGED refresh
    /\ UNCHANGED <<redis_client, genR, rev, rotations, expired>>
    /\ UNCHANGED <<vvars, lvars>>

\* Line 72: return new_token.
RotateReturn(c) ==
    /\ c \in rot
    /\ c.pc = "return"
    /\ rotations' = rotations \cup {[old |-> c.old, new |-> c.new, oldValid |-> c.oldValid]}
    /\ rot' = rot \ {c}
    /\ UNCHANGED <<redis_client, refresh, genR, rev, expired>>
    /\ UNCHANGED <<vvars, lvars>>

\* The worker dies between two lines of the call, or the answer of a command
\* the store has executed is lost.
RotateCrash(c) ==
    /\ c \in rot
    /\ c.pc \in {"ops", "return"}
    /\ rot' = (rot \ {c}) \cup {[c EXCEPT !.pc = "crashed"]}
    /\ UNCHANGED <<redis_client, refresh, genR, rev, rotations, expired>>
    /\ UNCHANGED <<vvars, lvars>>

(***************************************************************************)
(* revoke_token(token): one store command.                                 *)
(***************************************************************************)
NoRevoke == [tok |-> NoSuchToken, res |-> "none"]

\* Lines 126-128: redis_client.setex(refresh:{token}, 0, "revoked"), then the
\* success message.  An exception of the command leaves the handler (HTTP 500).
\* token is any token string a caller holds, or one never issued.
RevokeSetex(t, up) ==
    /\ IF redis_client /\ up
       THEN LET r == setex(refresh, t, 0, "revoked") IN
            /\ refresh' = r.db
            /\ rev' = [tok |-> t, res |-> IF r.ok THEN "ok" ELSE "ResponseError"]
       ELSE /\ rev' = [NoRevoke EXCEPT
                           !.res = IF redis_client THEN "ConnectionError" ELSE "AttributeError"]
            /\ UNCHANGED refresh
    /\ UNCHANGED <<redis_client, genR, rot, rotations, expired>>
    /\ UNCHANGED <<vvars, lvars>>

(***************************************************************************)
(* forgot_password(email) and reset_password(token, new_password)          *)
(***************************************************************************)

\* The verification tokens generated so far.
GenV == {t \in VTokens : bound[t] /= NoEmail}

\* Lines 106-110, forgot_password(email): generate_verification_token, then
\* store_email_verification_token: setex(verify:{token}, 86400, email) if there
\* is a client handle and nothing otherwise, then send_email_background queues
\* the mail with the token.  A failed command raises and ends the call.
forgot_password(email, up) ==
    /\ Cardinality(GenV) < MaxVTokens
    /\ LET t == FreshToken(GenV) IN
        /\ bound' = [bound EXCEPT ![t] = email]
        /\ IF redis_client
           THEN IF up
                THEN /\ verify' = setex(verify, t, VerifyTTL, email).db
                     /\ mailed' = mailed \cup {t}
                ELSE UNCHANGED <<verify, mailed>>
           ELSE /\ mailed' = mailed \cup {t}
                /\ UNCHANGED verify
    /\ UNCHANGED <<redis_client, rvars, lvars, rs, password, succ, expiredV>>

\* (mutant) without a client handle the token is taken at its word: the
\* identity it was generated for is answered.
get_email_verification_token_Trusting(t) ==
    IF redis_client
    THEN (IF get(verify, t) = "nil" THEN NoEmail ELSE get(verify, t))
    ELSE bound[t]

\* Lines 82-85: get_email_verification_token.
get_email_verification_token(t) ==
    IF redis_client
    THEN (IF get(verify, t) = "nil" THEN NoEmail ELSE get(verify, t))
    ELSE NoEmail

\* A reset_password call that raised (HTTP 500).
RsError == [pc |-> "error", tok |-> NoSuchToken, email |-> NoEmail, afterSuccess |-> FALSE]

\* The call c of the bag rs has become d.
RsStep(c, d) == (rs (-) SetToBag({c})) (+) SetToBag({d})

\* (mutant) the lookup removes the record it has read, before the update.
ResetGet_DeleteFirst(t, up) ==
    /\ BagCardinality(rs) < NumReset
    /\ rs' = rs (+) SetToBag({
                 IF redis_client /\ ~up
                 THEN RsError
                 ELSE LET email == get_email_verification_token(t) IN
                      [pc |-> IF email = NoEmail THEN "invalid" ELSE "update",
                       tok |-> t, email |-> email, afterSuccess |-> (succ[t] > 0)]})
    /\ verify' = IF redis_client /\ up THEN delete(verify, t) ELSE verify
    /\ UNCHANGED <<redis_client, rvars, lvars, bound, mailed, password, succ, expiredV>>

\* Lines 114-116: the lookup; no identity ends the call with 400 "Invalid or
\* expired token."  token is one a mail carried, or a string never issued.  At
\* most NumReset calls are served at a time.
ResetGet(t, up) ==
    /\ BagCardinality(rs) < NumReset
    /\ rs' = rs (+) SetToBag({
                 IF redis_client /\ ~up
                 THEN RsError
                 ELSE LET email == get_email_verification_token(t) IN
                      [pc |-> IF email = NoEmail THEN "invalid" ELSE "update",
                       tok |-> t, email |-> email, afterSuccess |-> (succ[t] > 0)]})
    /\ UNCHANGED <<redis_client, rvars, lvars, verify, bound, mailed, password, succ, expiredV>>

\* Lines 117-120: UPDATE users SET password ... WHERE email; commit.  A failing
\* database raises and ends the call.
ResetUpdate(c, dbok) ==
    /\ BagIn(c, rs)
    /\ c.pc = "update"
    /\ IF dbok
       THEN /\ password' = [password EXCEPT ![c.email] = "new"]
            /\ rs' = RsStep(c, [c EXCEPT !.pc = "delete"])
       ELSE /\ rs' = RsStep(c, RsError)
            /\ UNCHANGED password
    /\ UNCHANGED <<redis_client, rvars, lvars, verify, bound, mailed, succ, expiredV>>

\* (mutant) the token's record is not deleted after the reset.
ResetDelete_Skipped(c, up) ==
    /\ BagIn(c, rs)
    /\ c.pc = "delete"
    /\ rs' = RsStep(c, IF up THEN [c EXCEPT !.pc = "done"] ELSE RsError)
    /\ succ' = IF up THEN [succ EXCEPT ![c.tok] = @ + 1] ELSE succ
    /\ UNCHANGED <<redis_client, rvars, lvars, verify, bound, mailed, password, expiredV>>

\* (mutant) a reset removes every token of the identity, not only its own.
ResetDelete_AllOfIdentity(c, up) ==
    /\ BagIn(c, rs)
    /\ c.pc = "delete"
    /\ IF up
       THEN /\ verify' = [t \in VKeys |->
                             IF t = c.tok \/ get(verify, t) = c.email
                             THEN Absent ELSE verify[t]]
            /\ rs' = RsStep(c, [c EXCEPT !.pc = "done"])
            /\ succ' = [succ EXCEPT ![c.tok] = @ + 1]
       ELSE /\ rs' = RsStep(c, RsError)
            /\ UNCHANGED <<verify, succ>>
    /\ UNCHANGED <<redis_client, rvars, lvars, bound, mailed, password, expiredV>>

\* Lines 121-122: redis_client.delete(verify:{token}), then the success message.
ResetDelete(c, up) ==
    /\ BagIn(c, rs)
    /\ c.pc = "delete"
    /\ IF up
       THEN /\ verify' = delete(verify, c.tok)
            /\ rs' = RsStep(c, [c EXCEPT !.pc = "done"])
            /\ succ' = [succ EXCEPT ![c.tok] = @ + 1]
       ELSE /\ rs' = RsStep(c, RsError)
            /\ UNCHANGED <<verify, succ>>
    /\ UNCHANGED <<redis_client, rvars, lvars, bound, mailed, password, expiredV>>

\* The response is sent.
ResetFinish(c) ==
    /\ BagIn(c, rs)
    /\ c.pc \in {"invalid", "done", "error"}
    /\ rs' = rs (-) SetToBag({c})
    /\ UNCHANGED <<redis_client, rvars, lvars, verify, bound, mailed, password, succ, expiredV>>

\* The worker dies between two lines of the call.
ResetCrash(c) ==
    /\ BagIn(c, rs)
    /\ c.pc \in {"update", "delete"}
    /\ rs' = rs (-) SetToBag({c})
    /\ UNCHANGED <<redis_client, rvars, lvars, verify, bound, mailed, password, succ, expiredV>>

(***************************************************************************)
(* rate_limit_middleware(request, call_next)                               *)
(***************************************************************************)
ReqIdle == [pc |-> "idle", seen |-> 0]

\* (mutant) requests are turned away before the quota is used up.
OverQuota_Early(request_count) == request_count /= None /\ request_count >= Quota - 1

\* Line 136: request_count and int(request_count) > 100.
OverQuota(request_count) == request_count /= None /\ request_count > Quota

\* (mutant) the request is counted before it is turned away.
RLGet_CountRejected(p, c, up) ==
    /\ req[p].pc = "idle"
    /\ \A q \in ReqProcs : q < p => req[q].pc /= "idle"
    /\ req' = [req EXCEPT ![p] =
                  IF ~redis_client THEN [pc |-> "next", seen |-> 0]
                  ELSE IF ~up THEN [pc |-> "error", seen |-> 0]
                  ELSE IF OverQuota(getCount(rate, c)) THEN [pc |-> "rejected", seen |-> adm]
                  ELSE [pc |-> "incr", seen |-> adm]]
    /\ rate' = IF redis_client /\ up /\ OverQuota(getCount(rate, c))
               THEN expire(incr(rate, c), c, Window)
               ELSE rate
    /\ UNCHANGED <<redis_client, rvars, vvars, adm>>

\* Lines 133-137: without a client handle the request goes to call_next;
\* otherwise the counter is read, and a count over the quota raises 429.
RLGet(p, c, up) ==
    /\ req[p].pc = "idle"
    /\ \A q \in ReqProcs : q < p => req[q].pc /= "idle"
    /\ req' = [req EXCEPT ![p] =
                  IF ~redis_client THEN [pc |-> "next", seen |-> 0]
                  ELSE IF ~up THEN [pc |-> "error", seen |-> 0]
                  ELSE IF OverQuota(getCount(rate, c)) THEN [pc |-> "rejected", seen |-> adm]
                  ELSE [pc |-> "incr", seen |-> adm]]
    /\ UNCHANGED <<redis_client, rvars, vvars, rate, adm>>

\* (mutant) the count read at line 135 plus one is written back instead of INCR.
RLIncr_ReadModifyWrite(p, c, up) ==
    /\ req[p].pc = "incr"
    /\ IF up
       THEN /\ rate' = [rate EXCEPT ![c] =
                           [val |-> req[p].seen + 1,
                            ttl |-> IF rate[c].ttl = 0 THEN NoExpiry ELSE rate[c].ttl]]
            /\ adm' = adm + 1
            /\ req' = [req EXCEPT ![p].pc = "expire"]
       ELSE /\ req' = [req EXCEPT ![p].pc = "error"]
            /\ UNCHANGED <<rate, adm>>
    /\ UNCHANGED <<redis_client, rvars, vvars>>

\* Line 138: redis_client.incr(ratelimit:{user_ip}).
RLIncr(p, c, up) ==
    /\ req[p].pc = "incr"
    /\ IF up
       THEN /\ rate' = incr(rate, c)
            /\ adm' = adm + 1
            /\ req' = [req EXCEPT ![p].pc = "expire"]
       ELSE /\ req' = [req EXCEPT ![p].pc = "error"]
            /\ UNCHANGED <<rate, adm>>
    /\ UNCHANGED <<redis_client, rvars, vvars>>

\* Line 139: redis_client.expire(ratelimit:{user_ip}, 60).
RLExpire(p, c, up) ==
    /\ req[p].pc = "expire"
    /\ IF up
       THEN /\ rate' = expire(rate, c, Window)
            /\ req' = [req EXCEPT ![p].pc = "next"]
       ELSE /\ req' = [req EXCEPT ![p].pc = "error"]
            /\ UNCHANGED rate
    /\ UNCHANGED <<redis_client, rvars, vvars, adm>>

\* Line 140 (call_next), the 429 or the exception: the request is over.
RLFinish(p) ==
    /\ req[p].pc \in {"next", "rejected", "error"}
    /\ req' = [req EXCEPT ![p] = ReqIdle]
    /\ UNCHANGED <<redis_client, rvars, vvars, rate, adm>>

\* The worker dies between two lines of the middleware.
RLCrash(p) ==
    /\ req[p].pc \in {"incr", "expire"}
    /\ req' = [req EXCEPT ![p] = ReqIdle]
    /\ UNCHANGED <<redis_client, rvars, vvars, rate, adm>>

(***************************************************************************)
(* The environment: the store's clock.                                     *)
(***************************************************************************)
Tick ==
    /\ refresh' = Age(refresh, Absent)
    /\ expired' = expired \cup {t \in Tokens : refresh[t].ttl = 1}
    /\ verify' = Age(verify, Absent)
    /\ expiredV' = expiredV \cup {t \in VTokens : verify[t].ttl = 1}
    /\ rate' = Age(rate, NoCounter)
    /\ adm' = IF rate[Client].ttl = 1 THEN 0 ELSE adm
    /\ UNCHANGED <<redis_client, genR, rot, rev, rotations>>
    /\ UNCHANGED <<bound, mailed, rs, password, succ, req>>

\* Lines 48-65: get_redis_connection returns a handle, or None after three
\* failed attempts.  The store starts empty.
Init ==
    /\ redis_client \in BOOLEAN
    /\ refresh = [t \in Keys |-> Absent]
    /\ genR = {}
    /\ rot = {}
    /\ rev = NoRevoke
    /\ rotations = {}
    /\ expired = {}
    /\ verify = [t \in VKeys |-> Absent]
    /\ bound = [t \in VKeys |-> NoEmail]
    /\ mailed = {}
    /\ rs = EmptyBag
    /\ password = [e \in Emails |-> "old"]
    /\ succ = [t \in VKeys |-> 0]
    /\ expiredV = {}
    /\ rate = [c \in Clients |-> NoCounter]
    /\ req = [p \in ReqProcs |-> ReqIdle]
    /\ adm = 0

\* Rotation alone: no revoke_token call runs.
NextRotate ==
    \/ \E old \in Held \cup {NoSuchToken} : RotateCall(old)
    \/ \E c \in rot : \E up \in BOOLEAN : RotateSetex(c, up)
    \/ \E c \in rot : \E up \in BOOLEAN : RotateDelete(c, up)
    \/ \E c \in rot : RotateReturn(c)
    \/ \E c \in rot : RotateCrash(c)
    \/ Tick

SpecRotate == Init /\ [][NextRotate]_vars

\* The refresh-token manager: rotation and revocation.
NextRefresh ==
    \/ NextRotate
    \/ \E t \in Held \cup {NoSuchToken} : \E up \in BOOLEAN : RevokeSetex(t, up)

SpecRefresh == Init /\ [][NextRefresh]_vars

\* The verification-token manager: forgot_password and reset_password.
NextVerify ==
    \/ \E e \in Emails : \E up \in BOOLEAN : forgot_password(e, up)
    \/ \E t \in mailed \cup {NoSuchToken} : \E up \in BOOLEAN : ResetGet(t, up)
    \/ \E c \in BagToSet(rs) : \E dbok \in BOOLEAN : ResetUpdate(c, dbok)
    \/ \E c \in BagToSet(rs) : \E up \in BOOLEAN : ResetDelete(c, up)
    \/ \E c \in BagToSet(rs) : ResetFinish(c)
    \/ \E c \in BagToSet(rs) : ResetCrash(c)
    \/ Tick

SpecVerify == Init /\ [][NextVerify]_vars

\* The rate limiter.
NextRate ==
    \/ \E p \in ReqProcs : \E up \in BOOLEAN : RLGet(p, Client, up)
    \/ \E p \in ReqProcs : \E up \in BOOLEAN : RLIncr(p, Client, up)
    \/ \E p \in ReqProcs : \E up \in BOOLEAN : RLExpire(p, Client, up)
    \/ \E p \in ReqProcs : RLFinish(p)
    \/ \E p \in ReqProcs : RLCrash(p)
    \/ Tick

SpecRate == Init /\ [][NextRate]_vars

\* The rate limiter serving the requests of the client one after another: a
\* request enters the middleware only when no other request is in it.
RLGetSeq(p, c, up) ==
    /\ \A q \in ReqProcs : req[q].pc = "idle"
    /\ RLGet(p, c, up)

NextRateSeq ==
    \/ \E p \in ReqProcs : \E up \in BOOLEAN : RLGetSeq(p, Client, up)
    \/ \E p \in ReqProcs : \E up \in BOOLEAN : RLIncr(p, Client, up)
    \/ \E p \in ReqProcs : \E up \in BOOLEAN : RLExpire(p, Client, up)
    \/ \E p \in ReqProcs : RLFinish(p)
    \/ Tick

SpecRateSeq == Init /\ [][NextRateSeq]_vars

\* The rate limiter with time passing, requests arriving and every request in
\* flight taking its next step.
LiveRate ==
    /\ SpecRate
    /\ WF_vars(Tick)
    /\ \A p \in ReqProcs :
        /\ WF_vars(\E up \in BOOLEAN : RLGet(p, Client, up))
        /\ WF_vars(\E up \in BOOLEAN : RLIncr(p, Client, up))
        /\ WF_vars(\E up \in BOOLEAN : RLExpire(p, Client, up))
        /\ WF_vars(RLFinish(p))

\* The whole program.
Next == NextRefresh \/ NextVerify \/ NextRate

Spec == Init /\ [][Next]_vars

(***************************************************************************)
(* Properties of the refresh-token manager.                                *)
(***************************************************************************)

\* The key of token t was deleted by a rotation of t.
Rotated(t) ==
    \/ \E c \in rot : c.old = t /\ c.deleted
    \/ \E r \in rotations : r.old = t

\* A rotation of c's old token other than the call c has deleted its key.
DeletedByOther(c) ==
    \/ \E d \in rot \ {c} : d.old = c.old /\ d.deleted
    \/ \E r \in rotations : r.old = c.old

\* C1: once rotate(T) of a valid token T has returned T', T is not accepted in
\* any later state, and T' is accepted until T' is itself rotated or expires.
C1_RotationReplacesToken ==
    \A r \in rotations :
        r.oldValid =>
            /\ ~validate(r.old)
            /\ validate(r.new) \/ r.new \in expired \/ Rotated(r.new)

C1_Witness ==
    \E r \in rotations : r.oldValid /\ validate(r.new) /\ ~validate(r.old)

\* C2: a rotation that has deleted its old token's record has already written
\* its new token's record with status valid.
C2_WriteBeforeDelete ==
    \A c \in rot : c.deleted => c.wrote = "valid"

C2_Witness ==
    \E c \in rot : c.deleted /\ c.wrote = "valid" /\ c.oldValid

\* C3 as claimed: a rotate(T) of a valid token T that crashed at any step
\* before returning leaves T valid (no revoke runs, T has not expired).
C3_CrashAnywhereKeepsOld ==
    \A c \in rot :
        (c.pc = "crashed" /\ c.oldValid /\ c.old \notin expired)
            => validate(c.old)

\* C3 amended: a rotate(T) of a valid token T that crashed before its delete
\* command was executed leaves T valid, unless T expired or another rotation
\* of T deleted it (no revoke runs).
C3_CrashBeforeDeleteKeepsOld ==
    \A c \in rot :
        (/\ c.pc = "crashed"
         /\ c.ip <= Len(RotateOrder)
         /\ c.oldValid
         /\ c.old \notin expired
         /\ ~DeletedByOther(c))
            => validate(c.old)

C3_Witness ==
    \E c \in rot :
        /\ c.pc = "crashed"
        /\ c.ip = Len(RotateOrder)
        /\ c.wrote = "valid"
        /\ c.oldValid
        /\ validate(c.old)

\* C6: after revoke_token(token) has run against a store that answers, the
\* call has completed without error and validation of the token fails.
C6_RevokedNotAccepted ==
    rev.res \in {"ok", "ResponseError"} => (rev.res = "ok" /\ ~validate(rev.tok))

(***************************************************************************)
(* Properties of the verification-token manager.                           *)
(***************************************************************************)

\* C4: of the reset_password calls made with one token, at most one succeeds.
C4_AtMostOneConsumer ==
    \A t \in VTokens : succ[t] <= 1

\* C5: a reset_password call that obtains an identity obtains the one the
\* token was issued for; a call made after a successful call with the same
\* token finds no token; and a call finds no token only if the token was never
\* issued, has expired or was consumed by a successful call.
C5_FirstConsumeOnly ==
    \A c \in BagToSet(rs) :
        /\ c.pc \in {"update", "delete", "done"} =>
               (c.email /= NoEmail /\ c.email = bound[c.tok])
        /\ c.afterSuccess => c.pc = "invalid"
        /\ (c.pc = "invalid" /\ redis_client) =>
               (c.tok = NoSuchToken \/ c.tok \in expiredV \/ succ[c.tok] > 0)

C5_Witness ==
    \E c \in BagToSet(rs) :
        /\ c.afterSuccess
        /\ c.pc = "invalid"
        /\ c.tok \notin expiredV
        /\ succ[c.tok] = 1
        /\ password[bound[c.tok]] = "new"

(***************************************************************************)
(* Properties of the rate limiter.                                         *)
(***************************************************************************)

\* C7: a request is turned away with 429 only if at least Quota requests of
\* the same window were counted before it: the first Quota requests of a
\* window are all admitted.
C7_WithinQuotaAdmitted ==
    \A p \in ReqProcs : req[p].pc = "rejected" => req[p].seen >= Quota

C7_Witness ==
    /\ redis_client
    /\ adm = Quota
    /\ rate[Client].val = Quota
    /\ \E p \in ReqProcs : req[p].pc = "next" /\ req[p].seen = Quota - 1
    /\ \A p \in ReqProcs : req[p].pc \in {"idle", "next"}

\* C8: with the requests of the client served one after another, a request
\* that arrives when Quota requests of the window have been counted (the
\* (Quota+1)-th) is not admitted, and the stored count never exceeds Quota.
C8_QuotaPlusOneRejected ==
    /\ \A p \in ReqProcs :
           req[p].pc \in {"incr", "expire", "next"} /\ redis_client => req[p].seen < Quota
    /\ rate[Client].val <= Quota

\* C9: a client that is blocked (its counter is over the quota) eventually
\* finds its counter gone.
C9_BlockedEventuallyReset ==
    (rate[Client].ttl /= 0 /\ rate[Client].val > Quota) ~> (rate[Client].ttl = 0)

\* C10: no request ends with the exception of a store command: a request whose
\* store command fails is passed on to call_next.
C10_FailOpen ==
    \A p \in ReqProcs : req[p].pc /= "error"

(***************************************************************************)
(* Properties of the managers when the store cannot be asked.              *)
(***************************************************************************)

\* C11: without a client handle no refresh token validates, no reset_password
\* call obtains an identity and no password is changed; and a reset_password
\* call whose lookup does not reach the store obtains no identity and changes
\* no password.
C11_FailClosed ==
    /\ [](~redis_client =>
            /\ \A t \in Keys : ~validate(t)
            /\ \A c \in BagToSet(rs) : c.pc = "invalid" /\ c.email = NoEmail
            /\ \A e \in Emails : password[e] = "old")
    /\ [][\A t \in mailed \cup {NoSuchToken} :
            ResetGet(t, FALSE) =>
                /\ \A d \in BagToSet(rs' (-) rs) :
                       d.email = NoEmail /\ d.pc \in {"invalid", "error"}
                /\ password' = password]_vars

C11_Witness ==
    /\ ~redis_client
    /\ \E c \in BagToSet(rs) : c.tok \in mailed /\ c.pc = "invalid"

C13_MailedOnlyIfStored ==
    \A t \in mailed :
        \/ get(verify, t) = bound[t]
        \/ t \in expiredV
        \/ succ[t] > 0

(***************************************************************************)
(* Further properties of rotation.                                         *)
(***************************************************************************)

\* C14: a rotate(old) whose old token has no valid record (never issued,
\* already rotated or expired) still writes its new token's record, returns,
\* and the returned token is accepted until it is itself rotated or expires.
C14_RotateUnknownOld ==
    /\ \A c \in rot : (c.pc = "return" /\ ~c.oldValid) => c.wrote = "valid"
    /\ \A r \in rotations :
           ~r.oldValid => (validate(r.new) \/ r.new \in expired \/ Rotated(r.new))

C14_Witness ==
    \E r \in rotations :
        /\ ~r.oldValid
        /\ r.old /= NoSuchToken
        /\ validate(r.new)

(***************************************************************************)
(* Further properties of the rate limiter.                                 *)
(***************************************************************************)

\* C15: in every reachable state a rate counter that exists has an expiry.
C15_CounterHasExpiry ==
    \A c \in Clients : rate[c].ttl /= NoExpiry

\* C16: no step prolongs the life of a counter whose expiry is set: only the
\* first increment of a window sets the expiry.
C16_ExpiryOnlyOnFirst ==
    [][\A c \in Clients : rate[c].ttl > 0 => rate'[c].ttl <= rate[c].ttl]_vars

\* C17: the steps of a request that is turned away with 429 (the read that
\* finds the count over the quota, and the response) change neither the
\* counter's value nor its expiry.
C17_RejectLeavesCounter ==
    [][\A p \in ReqProcs :
          (req'[p] /= req[p] /\ (req'[p].pc = "rejected" \/ req[p].pc = "rejected"))
              => rate' = rate]_vars

C17_Witness ==
    /\ \E p \in ReqProcs : req[p].pc = "rejected"
    /\ rate[Client].val = Quota + 1
    /\ rate[Client].ttl > 0

(***************************************************************************)
(* Further properties of the verification-token manager.                   *)
(***************************************************************************)

\* C18: the record of a verification token changes only by the clock, by its
\* own issue or by the delete of a reset_password call made with that token:
\* issuing or consuming another token, of the same identity or not, leaves it
\* unchanged; so a stored token answers its identity until it is consumed or
\* expires.
C18_TokensIndependent ==
    /\ [][\A u \in VTokens :
            verify'[u] /= verify[u] =>
                \/ verify' = Age(verify, Absent)
                \/ bound[u] = NoEmail /\ get(verify', u) = bound'[u]
                \/ /\ \E c \in BagToSet(rs) : c.tok = u /\ c.pc = "delete"
                   /\ verify'[u] = Absent
                   /\ succ'[u] = succ[u] + 1]_vars
    /\ [](redis_client =>
            \A u \in mailed :
                get(verify, u) = bound[u] \/ u \in expiredV \/ succ[u] > 0)

C18_Witness ==
    \E t, u \in VTokens :
        /\ t /= u
        /\ bound[t] = bound[u]
        /\ succ[t] = 1
        /\ get(verify, t) = "nil"
        /\ succ[u] = 0
        /\ get(verify, u) = bound[u]

\* C19: with at most NumReq requests of the client in the middleware at a
\* time, the requests counted (and so the requests admitted) in one life of
\* the counter never exceed Quota + NumReq, and the counter equals the number
\* of increments made in its life: no increment is lost.
C19_BoundedOvershoot ==
    /\ adm <= Quota + NumReq
    /\ rate[Client].val = adm

C19_Witness ==
    /\ adm = Quota + NumReq
    /\ rate[Client].val = Quota + NumReq
    /\ \A p \in ReqProcs : req[p].pc = "next"

\* C20: a verification token's record is deleted (other than by its TTL) only
\* by a reset_password call made with it that has committed the password
\* update; a call whose lookup or update fails, or that dies before its
\* delete, leaves every record as it is.
C20_DeleteAfterCommit ==
    /\ [][\A u \in VTokens :
            (verify[u] /= Absent /\ verify'[u] = Absent /\ verify' /= Age(verify, Absent))
                => \E c \in BagToSet(rs) :
                       c.tok = u /\ c.pc = "delete" /\ password[c.email] = "new"]_vars
    /\ [][(\/ BagToSet(rs' (-) rs) \subseteq {RsError} /\ rs' /= rs
           \/ \E c \in BagToSet(rs) :
                  c.pc \in {"update", "delete"} /\ rs' = rs (-) SetToBag({c}))
              => verify' = verify /\ succ' = succ]_vars

C20_Witness ==
    /\ BagIn(RsError, rs)
    /\ \E t \in mailed :
           /\ get(verify, t) = bound[t]
           /\ password[bound[t]] = "old"
           /\ \E c \in BagToSet(rs) : c.tok = t /\ c.pc = "update"

====
